---- MODULE Spec2Model ----
(***************************************************************************)
(* gocue: cue-in / cue-out / overlay / gain analysis (pkg/cue).            *)
(*                                                                         *)
(* Numbers.  Go float64 values are modelled in fixed point:                *)
(*   - times in milliseconds (1 = 0.001 s),                                *)
(*   - loudness, gain and peak levels in thousandths of a dB / LU / LUFS,  *)
(*   - the linear true peak in thousandths,                                *)
(*   - the drop threshold in whole percent.                                *)
(* At this resolution "%.3f" keeps a value and "%.2f" rounds it to the     *)
(* nearest 10.  NaN and -Inf are the two non-finite values the code can    *)
(* produce from its inputs; they are sentinels with the comparison         *)
(* semantics of IEEE 754 (every ordered comparison with NaN is false).     *)
(* Rounding error of float64 arithmetic itself is not modelled.            *)
(***************************************************************************)
EXTENDS Integers, Naturals, Sequences, FiniteSets, TLC

(***************************************************************************)
(* Bounds of the model.                                                    *)
(***************************************************************************)
\* longest sample series the meter emits in a run
MaxFrames == 4
\* longest tag value handed to takePureValue, in characters
MaxChars == 4

(***************************************************************************)
(* Non-finite float64 values.                                              *)
(***************************************************************************)
\* strconv.ParseFloat("nan", 64) succeeds and yields NaN
NaN == 999999999
\* math.Inf(-1)
NegInf == -999999999

\* a > b on float64
FGt(a, b) == a # NaN /\ b # NaN /\ a > b
\* a <= b on float64
FLe(a, b) == a # NaN /\ b # NaN /\ a <= b
\* a < b on float64
FLt(a, b) == a # NaN /\ b # NaN /\ a < b
\* a + b on float64, a and b finite or NaN
FAdd(a, b) == IF a = NaN \/ b = NaN THEN NaN ELSE a + b

\* the first argument, uncorrected
Max_Left(a, b) == a

\* the second argument, whatever the first
Max_Right(a, b) == b

\* math.Max on finite values (times)
Max(a, b) == IF a >= b THEN a ELSE b

(***************************************************************************)
(* Formatting and parsing.                                                 *)
(***************************************************************************)
\* nearest multiple of 10 (round half away from zero; the model's inputs hold no ties)
RoundTo10(x) ==
    IF x >= 0 THEN ((x + 5) \div 10) * 10 ELSE 0 - (((0 - x) + 5) \div 10) * 10

\* fmt.Sprintf("%.2f", duration) followed by strconv.ParseFloat
Round2(x) == RoundTo10(x)

\* a Go string: a decimal number printed with prec digits and followed by a
\* unit suffix ("" for none), or a text without any digit
Num(v, prec, unit) == [kind |-> "num", v |-> v, prec |-> prec, unit |-> unit]
Text(s) == [kind |-> "text", v |-> 0, prec |-> 0, unit |-> s]
\* fmt.Sprintf("%.3f", x)
Fmt3(x) == Num(x, 3, "")
\* fmt.Sprintf("%.3f <unit>", x)
Fmt3U(x, unit) == Num(x, 3, unit)
\* fmt.Sprintf("%.2f <unit>", x)
Fmt2U(x, unit) == Num(IF x # NaN /\ x # NegInf THEN RoundTo10(x) ELSE x, 2, unit)
\* the zero value of a Go string
EmptyStr == Text("")

\* strconv.ParseFloat(s, 64): the whole string must be a number
ParseOk(s) == s.kind = "num" /\ s.unit = ""
\* the value ParseFloat returns, 0 with an error
ParseVal(s) == IF ParseOk(s) THEN s.v ELSE 0

\* digitalValRegex.FindStringSubmatch(val) finds a number: val holds a digit
HasDigits(s) == s.kind = "num" /\ s.v # NaN /\ s.v # NegInf

(***************************************************************************)
(* Configuration (CalculatorOptions / Calculator).                         *)
(***************************************************************************)
defaultTargetLUFS == -18000
defaultSilence == -42000
defaultOverlayLU == -8000
defaultLongTailSeconds == 15000
longTailExtraLU == -12000
defaultSustainedLoudnessDrop == 40
defaultBlankSkip == 0

\* NewCalculator(nil)
DefaultOptions ==
    [ targetLoudness  |-> defaultTargetLUFS,
      blankSkip       |-> defaultBlankSkip,
      silence         |-> defaultSilence,
      overlay         |-> defaultOverlayLU,
      longtailSeconds |-> defaultLongTailSeconds,
      extra           |-> longTailExtraLU,
      drop            |-> defaultSustainedLoudnessDrop,
      noClip          |-> FALSE ]

\* the ranges the command line accepts
validateRanges(c) ==
    /\ c.targetLoudness >= -23000 /\ c.targetLoudness <= 0
    /\ c.silence >= -96000 /\ c.silence <= 0
    /\ c.overlay >= -96000 /\ c.overlay <= 0
    /\ c.longtailSeconds >= 0 /\ c.longtailSeconds <= 60000
    /\ c.extra >= -96000 /\ c.extra <= 0
    /\ c.drop >= 0 /\ c.drop <= 100
    /\ c.blankSkip >= 0 /\ c.blankSkip <= 60000

(***************************************************************************)
(* Gain Calculator.                                                        *)
(***************************************************************************)
\* calcAmplify limiting the gain whether or not clip prevention is on
calcAmplify_IgnoresNoClip(c, loudness, liqTruePeakDb) ==
    LET amplify == c.targetLoudness - loudness
        exceeds == liqTruePeakDb # NegInf /\ amplify > -1000 - liqTruePeakDb
    IN  IF exceeds
        THEN [ amplify           |-> -1000 - liqTruePeakDb,
               amplifyCorrection |-> (-1000 - liqTruePeakDb) - amplify ]
        ELSE [ amplify |-> amplify, amplifyCorrection |-> 0 ]

\* Calculator.calcAmplify: [amplify, amplifyCorrection]
calcAmplify(c, loudness, liqTruePeakDb) ==
    LET amplify == c.targetLoudness - loudness
        \* -1.0 - liqTruePeakDb is +Inf for a true peak of -Inf: nothing exceeds it
        exceeds == liqTruePeakDb # NegInf /\ amplify > -1000 - liqTruePeakDb
    IN  IF c.noClip /\ exceeds
        THEN [ amplify           |-> -1000 - liqTruePeakDb,
               amplifyCorrection |-> (-1000 - liqTruePeakDb) - amplify ]
        ELSE [ amplify |-> amplify, amplifyCorrection |-> 0 ]

(***************************************************************************)
(* Frames (Frame) and the scans over them.  Indices are Go's, from 0.      *)
(***************************************************************************)
Fr(frames, i) == frames[i + 1]

\* a level to exceed: Loudness > num/den and Loudness > floor
Level(x) == [num |-> x, den |-> 1, floor |-> x]
Exceeds(m, lvl) == m # NaN /\ m * lvl.den > lvl.num /\ m > lvl.floor

\* the loop run from the end of the range
RECURSIVE FirstAbove_Backward(_, _, _, _)
FirstAbove_Backward(frames, lo, hi, lvl) ==
    IF hi - 1 < lo THEN -1
    ELSE IF Exceeds(Fr(frames, hi - 1).Loudness, lvl) THEN hi - 1
    ELSE FirstAbove_Backward(frames, lo, hi - 1, lvl)

\* for i := lo; i < hi; i++ { if frames[i].Loudness > level { ...; break } }: i, or -1
RECURSIVE FirstAbove(_, _, _, _)
FirstAbove(frames, lo, hi, lvl) ==
    IF lo >= hi THEN -1
    ELSE IF Exceeds(Fr(frames, lo).Loudness, lvl) THEN lo
    ELSE FirstAbove(frames, lo + 1, hi, lvl)

\* for i := hi - 1; i >= lo; i-- { if frames[i].Loudness > level { ...; break } }: i, or -1
RECURSIVE LastAbove(_, _, _, _)
LastAbove(frames, lo, hi, lvl) ==
    IF hi - 1 < lo THEN -1
    ELSE IF Exceeds(Fr(frames, hi - 1).Loudness, lvl) THEN hi - 1
    ELSE LastAbove(frames, lo, hi - 1, lvl)

\* the PTSTime found by a scan, 0.0 when the scan found nothing
TimeAt(frames, i) == IF i >= 0 THEN Fr(frames, i).PTSTime ELSE 0

\* inner loop of the blank search: skip the silent run while it is inside the stop time
RECURSIVE SkipRun(_, _, _, _, _)
SkipRun(frames, i, end, silenceLevel, stop) ==
    IF i < end /\ FLe(Fr(frames, i).Loudness, silenceLevel) /\ Fr(frames, i).PTSTime <= stop
    THEN SkipRun(frames, i + 1, end, silenceLevel, stop)
    ELSE i

\* outer loop of the blank search: [cueOutTimeBlank, endBlank]
RECURSIVE BlankSearch(_, _, _, _, _, _)
BlankSearch(frames, i, end, silenceLevel, blankSkip, endBlank) ==
    IF i >= end THEN [cueOutTimeBlank |-> 0, endBlank |-> endBlank]
    ELSE IF FLe(Fr(frames, i).Loudness, silenceLevel)
    THEN LET cueOutTimeBlankStart == Fr(frames, i).PTSTime
             cueOutTimeBlankStop  == Fr(frames, i).PTSTime + blankSkip
             j == SkipRun(frames, i, end, silenceLevel, cueOutTimeBlankStop)
         IN  IF j >= end
             THEN \* ran into end of track, reset end_blank
                  [cueOutTimeBlank |-> 0, endBlank |-> end]
             ELSE IF Fr(frames, j).PTSTime >= cueOutTimeBlankStop
             THEN \* found silence long enough
                  [cueOutTimeBlank |-> cueOutTimeBlankStart, endBlank |-> i + 1]
             ELSE \* found silence too short, continue search
                  BlankSearch(frames, j + 1, end, silenceLevel, blankSkip, i + 1)
    ELSE BlankSearch(frames, i + 1, end, silenceLevel, blankSkip, endBlank)

\* sum of Loudness over frames[lo:hi]
RECURSIVE SumLoudness(_, _, _)
SumLoudness(frames, lo, hi) ==
    IF lo >= hi THEN 0
    ELSE FAdd(Fr(frames, lo).Loudness, SumLoudness(frames, lo + 1, hi))

\* calcEnding(frames[lo:hi]), hi > lo: the sums y1, y2 of the two halves before the
\* division by n, and n; lufsRatioPct = (1 - y1/y2) * 100 and endLufs = y2/n
calcEnding(frames, lo, hi) ==
    LET l  == hi - lo
        l2 == l \div 2
    IN  [ y1 |-> IF l >= 2 THEN SumLoudness(frames, lo, lo + l2)
                           ELSE SumLoudness(frames, lo, hi),
          y2 |-> IF l >= 2 THEN SumLoudness(frames, lo + l2 + (l % 2), hi)
                           ELSE SumLoudness(frames, lo, hi),
          n  |-> IF l2 > 0 THEN l2 ELSE 1 ]

\* lufsRatioPct <= c.drop
DropBelow_NotStrict(e, drop) ==
    IF e.y1 = NaN \/ e.y2 = NaN THEN FALSE
    ELSE IF e.y2 = 0 THEN TRUE
    ELSE IF e.y2 > 0 THEN 100 * (e.y2 - e.y1) <= drop * e.y2
    ELSE 100 * (e.y2 - e.y1) >= drop * e.y2

\* lufsRatioPct < c.drop
DropBelow(e, drop) ==
    IF e.y1 = NaN \/ e.y2 = NaN THEN FALSE
    ELSE IF e.y2 = 0 THEN TRUE          \* (1 - +Inf) * 100 = -Inf
    ELSE IF e.y2 > 0 THEN 100 * (e.y2 - e.y1) < drop * e.y2
    ELSE 100 * (e.y2 - e.y1) > drop * e.y2

\* 20 * math.Log10(truePeak) at the linear peaks the model's meter reports
Log20(truePeak) ==
    CASE truePeak = 1122 -> 1000
      [] truePeak = 1000 -> 0
      [] truePeak = 986  -> -122
      [] truePeak = 500  -> -6021

(***************************************************************************)
(* Result and the Cue-Point Analyzer.                                      *)
(***************************************************************************)
\* the blank candidate replaces the normal cue-out also when none was found
BlankAdopted_NoZeroCheck(c, cueOutTimeBlank, cueOutTime) ==
    c.blankSkip > 0 /\ cueOutTimeBlank < cueOutTime

\* the blank candidate replaces the normal cue-out whenever one was found
BlankAdopted_AnyCandidate(c, cueOutTimeBlank, cueOutTime) ==
    c.blankSkip > 0 /\ 0 < cueOutTimeBlank

\* the blank candidate replaces the normal cue-out
BlankAdopted(c, cueOutTimeBlank, cueOutTime) ==
    c.blankSkip > 0 /\ 0 < cueOutTimeBlank /\ cueOutTimeBlank < cueOutTime

\* the overlap reaching the long-tail seconds is already a long tail
IsLongTail_NotStrict(c, cueOutTime, startNextTime) ==
    (cueOutTime - startNextTime) >= c.longtailSeconds

\* the calculated overlap is longer than the long-tail seconds
IsLongTail(c, cueOutTime, startNextTime) ==
    (cueOutTime - startNextTime) > c.longtailSeconds

\* the recomputed overlay times are dropped
Consolidate_NormalOnly(startNextTime, startNextTimeSustained, startNextTimeLongtail) ==
    startNextTime

\* consolidate results from sustained and longtail
Consolidate(startNextTime, startNextTimeSustained, startNextTimeLongtail) ==
    Max(Max(startNextTime, startNextTimeSustained), startNextTimeLongtail)

\* everything Calculator.scan computes from the parsed frames (len(frames) > 0)
Analysis(c, frames) ==
    LET last == Fr(frames, Len(frames) - 1)
        \* true peak over all channels and loudness range, from the last frame
        truePeak      == last.TruePeak
        loudnessRange == last.LRA
        truePeakDb    == IF truePeak > 0 THEN Log20(truePeak) ELSE NegInf
        duration      == Round2(last.PTSTime + 100)
        loudness      == last.IntegratedLoudness
        \* cue-in
        silenceLevel  == loudness + c.silence
        len           == Len(frames)
        cueInIdx      == FirstAbove(frames, 0, len, Level(silenceLevel))
        start         == IF cueInIdx >= 0 THEN cueInIdx ELSE 0
        cueInFound    == TimeAt(frames, cueInIdx)
        cueInTime     == IF cueInFound < 400 THEN 0 ELSE cueInFound
        \* blank detection
        blank         == IF c.blankSkip > 0
                         THEN BlankSearch(frames, start, len, silenceLevel, c.blankSkip, len)
                         ELSE [cueOutTimeBlank |-> 0, endBlank |-> len]
        \* normal cue-out
        cueOutIdx     == LastAbove(frames, start, len, Level(silenceLevel))
        endNormal     == IF cueOutIdx >= 0 THEN cueOutIdx + 1 ELSE len
        cueOutNormal  == Max(TimeAt(frames, cueOutIdx), duration - TimeAt(frames, cueOutIdx))
        \* blank reconciliation
        blankSkipped  == BlankAdopted(c, blank.cueOutTimeBlank, cueOutNormal)
        cueOutTime    == IF blankSkipped THEN blank.cueOutTimeBlank ELSE cueOutNormal
        end           == IF c.blankSkip > 0 THEN blank.endBlank ELSE endNormal
        \* overlay point
        cueDuration   == cueOutTime - cueInTime
        nextIdx       == LastAbove(frames, start, end, Level(loudness + c.overlay))
        startNextIdx  == IF nextIdx >= 0 THEN nextIdx ELSE end
        startNextTime == Max(TimeAt(frames, nextIdx), cueOutTime - TimeAt(frames, nextIdx))
        \* sustained ending
        ending        == calcEnding(frames, startNextIdx, end)
        sustained     == startNextIdx < end /\ DropBelow(ending, c.drop)
        sustainedLvl  == [ num   |-> ending.y2,
                           den   |-> ending.n,
                           floor |-> loudness + c.overlay + c.extra ]
        sustainedIdx  == LastAbove(frames, start, end, sustainedLvl)
        startNextTimeSustained ==
            IF sustained
            THEN Max(TimeAt(frames, sustainedIdx), cueOutTime - TimeAt(frames, sustainedIdx))
            ELSE 0
        \* long tail
        longtail      == IsLongTail(c, cueOutTime, startNextTime)
        longtailIdx   == LastAbove(frames, start, end,
                                   Level(loudness + c.overlay + c.extra))
        startNextTimeLongtail ==
            IF longtail
            THEN Max(TimeAt(frames, longtailIdx), cueOutTime - TimeAt(frames, longtailIdx))
            ELSE 0
        startNextTimeNew ==
            Consolidate(startNextTime, startNextTimeSustained, startNextTimeLongtail)
        amp           == calcAmplify(c, loudness, truePeakDb)
    IN  [ duration |-> duration, loudness |-> loudness, silenceLevel |-> silenceLevel,
          start |-> start, end |-> end, endNormal |-> endNormal,
          cueInTime |-> cueInTime, cueOutNormal |-> cueOutNormal,
          cueOutTimeBlank |-> blank.cueOutTimeBlank, endBlank |-> blank.endBlank,
          blankSkipped |-> blankSkipped, cueOutTime |-> cueOutTime,
          cueDuration |-> cueDuration,
          startNextIdx |-> startNextIdx, startNextTime |-> startNextTime,
          sustained |-> sustained, startNextTimeSustained |-> startNextTimeSustained,
          longtail |-> longtail, startNextTimeLongtail |-> startNextTimeLongtail,
          startNextTimeNew |-> startNextTimeNew,
          truePeak |-> truePeak, truePeakDb |-> truePeakDb,
          loudnessRange |-> loudnessRange,
          amplify |-> amp.amplify, amplifyCorrection |-> amp.amplifyCorrection ]

\* the Result struct literal Calculator.scan returns
ScanResult(c, frames) ==
    LET a == Analysis(c, frames)
    IN  [ Duration          |-> a.duration,
          CueDuration       |-> a.cueDuration,
          CueIn             |-> a.cueInTime,
          CueOut            |-> a.cueOutTime,
          CrossStartNext    |-> a.startNextTimeNew,
          LongTail          |-> a.longtail,
          SustainedEnding   |-> a.sustained,
          Loudness          |-> Fmt3U(a.loudness, "LUFS"),
          LoudnessRange     |-> Fmt3U(a.loudnessRange, "LU"),
          Amplify           |-> Fmt3U(a.amplify, "dB"),
          AmplifyAdjustment |-> Fmt3U(a.amplifyCorrection, "dB"),
          ReferenceLoudness |-> Fmt3U(c.targetLoudness, "LUFS"),
          BlankSkip         |-> c.blankSkip,
          BlankSkipped      |-> a.blankSkipped,
          TruePeak          |-> a.truePeak,
          TruePeakDb        |-> Fmt3U(a.truePeakDb, "dBFS") ]

(***************************************************************************)
(* Tag maps (map[string]string): functions whose domain is the key set.    *)
(***************************************************************************)
Has(tags, k) == k \in DOMAIN tags
\* tags[k], "" for a missing key
Get(tags, k) == IF k \in DOMAIN tags THEN tags[k] ELSE EmptyStr
\* tags[k] = v
Put(tags, k, v) == [x \in (DOMAIN tags) \cup {k} |-> IF x = k THEN v ELSE tags[x]]

\* the base tags without the gain reference
baseTags_NoGain == << "duration", "liq_cue_in", "liq_cue_out", "liq_cross_start_next" >>

\* minimum set of tags that must be there before skipping analysis
baseTags ==
    << "duration", "liq_cue_in", "liq_cue_out", "liq_cross_start_next",
       "replaygain_track_gain" >>

\* the tags to check when reading tags from files
verifyTags ==
    { "duration", "liq_amplify_adjustment", "liq_amplify", "liq_blankskip",
      "liq_blank_skipped", "liq_cross_duration", "liq_cross_start_next",
      "liq_cue_duration", "liq_cue_file", "liq_cue_in", "liq_cue_out",
      "liq_fade_in", "liq_fade_out", "liq_longtail", "liq_loudness",
      "liq_loudness_range", "liq_reference_loudness", "liq_sustained_ending",
      "liq_true_peak_db", "liq_true_peak", "r128_track_gain",
      "replaygain_reference_loudness", "replaygain_track_gain",
      "replaygain_track_peak", "replaygain_track_range" }

needsCleaning ==
    { "liq_amplify", "liq_amplify_adjustment", "liq_loudness", "liq_loudness_range",
      "liq_reference_loudness", "replaygain_track_gain", "replaygain_track_range",
      "replaygain_reference_loudness", "liq_true_peak_db" }

\* takePureValue(key, val): [res, err]
takePureValue(key, val) ==
    IF key \notin needsCleaning THEN [res |-> val, err |-> FALSE]
    ELSE IF ~HasDigits(val) THEN [res |-> EmptyStr, err |-> TRUE]
    ELSE [res |-> Num(val.v, val.prec, ""), err |-> FALSE]

\* Calculator.probe on the ffprobe output for a file with one audio stream:
\* the stream duration, then every known file tag that cleans without error
probe(f) ==
    LET kept == { k \in DOMAIN f.tags :
                    k \in verifyTags /\ ~takePureValue(k, f.tags[k]).err }
    IN  [ k \in kept \cup {"duration"} |->
            IF k \in kept THEN takePureValue(k, f.tags[k]).res ELSE f.duration ]

\* the error value ErrRequireAnalysis{inner}; inner names the tag
ErrRequireAnalysis(inner) == [type |-> "ErrRequireAnalysis", inner |-> inner]
NoError == [type |-> "nil", inner |-> ""]

\* first base tag missing from the map, "" when all are there
RECURSIVE MissingBaseTag(_, _)
MissingBaseTag(tags, i) ==
    IF i > Len(baseTags) THEN ""
    ELSE IF ~Has(tags, baseTags[i]) THEN baseTags[i]
    ELSE MissingBaseTag(tags, i + 1)

\* the tag check with the cached gain only shifted to the target, not recomputed
doPreAnalysis_KeepsCachedGain(c, tags) ==
    LET bt == MissingBaseTag(tags, 1)
        \* adjust liq_amplify by loudness target difference, set reference
        adjusted ==
            IF ParseOk(tags["liq_amplify"]) /\ ParseOk(tags["liq_reference_loudness"])
            THEN Put(Put(tags, "liq_amplify",
                         Fmt3(ParseVal(tags["liq_amplify"])
                              + (c.targetLoudness - ParseVal(tags["liq_reference_loudness"])))),
                     "liq_reference_loudness", Fmt3(c.targetLoudness))
            ELSE tags
        amplified == adjusted
    IN  IF bt # ""
        THEN [err |-> ErrRequireAnalysis(bt), tags |-> tags]
        ELSE IF ~Has(tags, "liq_amplify")
        THEN [err |-> ErrRequireAnalysis("liq_amplify"), tags |-> tags]
        ELSE IF ~Has(tags, "liq_reference_loudness")
        THEN [err |-> ErrRequireAnalysis("liq_reference_loudness"), tags |-> tags]
        ELSE IF ~Has(tags, "liq_true_peak")
        THEN [err |-> ErrRequireAnalysis("liq_true_peak"), tags |-> adjusted]
        ELSE IF ~Has(tags, "liq_true_peak_db")
        THEN [err |-> ErrRequireAnalysis("liq_true_peak_db"), tags |-> adjusted]
        ELSE IF ~Has(tags, "liq_loudness")
        THEN [err |-> ErrRequireAnalysis("liq_loudness"), tags |-> adjusted]
        ELSE IF ~ParseOk(tags["liq_true_peak_db"])
        THEN [err |-> ErrRequireAnalysis("cannot parse liq_true_peak_db"), tags |-> adjusted]
        ELSE IF ~ParseOk(tags["liq_loudness"])
        THEN [err |-> ErrRequireAnalysis("cannot parse liq_loudness"), tags |-> adjusted]
        ELSE IF /\ Has(tags, "liq_blankskip")
                /\ ParseOk(tags["liq_blankskip"])
                /\ ParseVal(tags["liq_blankskip"]) # c.blankSkip
        THEN [err |-> ErrRequireAnalysis("liq_blankskip"), tags |-> amplified]
        ELSE IF ~Has(tags, "liq_loudness_range")
        THEN [err |-> ErrRequireAnalysis("liq_loudness_range"), tags |-> amplified]
        ELSE [err |-> NoError, tags |-> amplified]

\* Calculator.doPreAnalysis: [err, tags], tags as the call leaves the map
doPreAnalysis(c, tags) ==
    LET bt == MissingBaseTag(tags, 1)
        \* adjust liq_amplify by loudness target difference, set reference
        adjusted ==
            IF ParseOk(tags["liq_amplify"]) /\ ParseOk(tags["liq_reference_loudness"])
            THEN Put(Put(tags, "liq_amplify",
                         Fmt3(ParseVal(tags["liq_amplify"])
                              + (c.targetLoudness - ParseVal(tags["liq_reference_loudness"])))),
                     "liq_reference_loudness", Fmt3(c.targetLoudness))
            ELSE tags
        amp == calcAmplify(c, ParseVal(tags["liq_loudness"]), ParseVal(tags["liq_true_peak_db"]))
        amplified == Put(Put(adjusted, "liq_amplify", Fmt3(amp.amplify)),
                         "liq_amplify_adjustment", Fmt3(amp.amplifyCorrection))
    IN  IF bt # ""
        THEN [err |-> ErrRequireAnalysis(bt), tags |-> tags]
        ELSE IF ~Has(tags, "liq_amplify")
        THEN [err |-> ErrRequireAnalysis("liq_amplify"), tags |-> tags]
        ELSE IF ~Has(tags, "liq_reference_loudness")
        THEN [err |-> ErrRequireAnalysis("liq_reference_loudness"), tags |-> tags]
        ELSE IF ~Has(tags, "liq_true_peak")
        THEN [err |-> ErrRequireAnalysis("liq_true_peak"), tags |-> adjusted]
        ELSE IF ~Has(tags, "liq_true_peak_db")
        THEN [err |-> ErrRequireAnalysis("liq_true_peak_db"), tags |-> adjusted]
        ELSE IF ~Has(tags, "liq_loudness")
        THEN [err |-> ErrRequireAnalysis("liq_loudness"), tags |-> adjusted]
        ELSE IF ~ParseOk(tags["liq_true_peak_db"])
        THEN [err |-> ErrRequireAnalysis("cannot parse liq_true_peak_db"), tags |-> adjusted]
        ELSE IF ~ParseOk(tags["liq_loudness"])
        THEN [err |-> ErrRequireAnalysis("cannot parse liq_loudness"), tags |-> adjusted]
        ELSE IF /\ Has(tags, "liq_blankskip")
                /\ ParseOk(tags["liq_blankskip"])
                /\ ParseVal(tags["liq_blankskip"]) # c.blankSkip
        THEN [err |-> ErrRequireAnalysis("liq_blankskip"), tags |-> amplified]
        ELSE IF ~Has(tags, "liq_loudness_range")
        THEN [err |-> ErrRequireAnalysis("liq_loudness_range"), tags |-> amplified]
        ELSE [err |-> NoError, tags |-> amplified]

\* if _, ok := tags[k]; !ok { tags[k] = v }
Default(tags, k, v) == IF Has(tags, k) THEN tags ELSE Put(tags, k, v)

\* Calculator.populate
populate(c, tags) ==
    LET t1  == Default(tags, "liq_longtail", Text("false"))
        t2  == Default(t1, "liq_sustained_ending", Text("false"))
        t3  == Default(t2, "liq_amplify", Get(t2, "replaygain_track_gain"))
        t4  == Default(t3, "liq_amplify_adjustment", Num(0, 1, ""))
        t5  == Default(t4, "liq_loudness",
                       Fmt3(c.targetLoudness - ParseVal(Get(t4, "replaygain_track_gain"))))
        t6  == Default(t5, "liq_blankskip", Fmt3(c.blankSkip))
        t7  == Default(t6, "liq_blank_skipped", Text("false"))
        t8  == Default(t7, "liq_reference_loudness", Fmt3(c.targetLoudness))
        t9  == Default(t8, "replaygain_track_gain", Get(t8, "liq_amplify"))
        t10 == Default(t9, "replaygain_track_peak", Get(t9, "liq_true_peak"))
        t11 == Default(t10, "replaygain_track_range", Get(t10, "liq_loudness_range"))
    IN  Default(t11, "replaygain_reference_loudness", Get(t11, "liq_reference_loudness"))

\* Calculator.adjustLoudness
adjustLoudness(c, tags) ==
    LET \* replaygain_track_gain from Opus R128_TRACK_GAIN (ref: -23 LUFS)
        t1 == IF Has(tags, "r128_track_gain") /\ ParseOk(tags["r128_track_gain"])
              THEN Put(tags, "replaygain_track_gain",
                       Fmt3((ParseVal(tags["r128_track_gain"]) \div 256)
                            + (c.targetLoudness - (-23000))))
              ELSE tags
        \* add missing liq_amplify, if we have replaygain_track_gain
        t2 == IF ~Has(t1, "liq_amplify") /\ Has(t1, "replaygain_track_gain")
              THEN Put(t1, "liq_amplify", t1["replaygain_track_gain"])
              ELSE t1
        \* old RG1/mp3gain positive loudness reference
        t3 == IF Has(t2, "replaygain_reference_loudness")
              THEN LET replayRefLoudness == t2["replaygain_reference_loudness"]
                       u == IF ParseOk(replayRefLoudness)
                            THEN Put(t2, "replaygain_reference_loudness",
                                     Fmt3(ParseVal(replayRefLoudness) - 107000))
                            ELSE t2
                   IN  Default(u, "liq_reference_loudness", replayRefLoudness)
              ELSE t2
    IN  \* liq_cue_duration from liq_cue_in and liq_cue_out, or the duration
        IF Has(t3, "liq_cue_in") /\ ParseOk(t3["liq_cue_in"])
        THEN IF Has(t3, "liq_cue_out")
             THEN IF ParseOk(t3["liq_cue_out"])
                  THEN Put(t3, "liq_cue_duration",
                           Fmt3(ParseVal(t3["liq_cue_out"]) - ParseVal(t3["liq_cue_in"])))
                  ELSE t3
             ELSE IF ParseOk(Get(t3, "duration"))
                  THEN Put(t3, "liq_cue_duration",
                           Fmt3(ParseVal(Get(t3, "duration")) - ParseVal(t3["liq_cue_in"])))
                  ELSE t3
        ELSE t3

\* parseTags: the Result built from the tags
parseTags(tags) ==
    [ Duration          |-> ParseVal(Get(tags, "duration")),
      CueDuration       |-> ParseVal(Get(tags, "liq_cue_duration")),
      CueIn             |-> ParseVal(Get(tags, "liq_cue_in")),
      CueOut            |-> ParseVal(Get(tags, "liq_cue_out")),
      CrossStartNext    |-> ParseVal(Get(tags, "liq_cross_start_next")),
      LongTail          |-> Get(tags, "liq_longtail") = Text("true"),
      SustainedEnding   |-> Get(tags, "liq_sustained_ending") = Text("true"),
      Loudness          |-> Fmt3U(ParseVal(Get(tags, "liq_loudness")), "LUFS"),
      LoudnessRange     |-> Fmt3U(ParseVal(Get(tags, "liq_loudness_range")), "LU"),
      Amplify           |-> Fmt3U(ParseVal(Get(tags, "liq_amplify")), "dB"),
      AmplifyAdjustment |-> Fmt3U(ParseVal(Get(tags, "liq_amplify_adjustment")), "dB"),
      ReferenceLoudness |-> EmptyStr,
      BlankSkip         |-> ParseVal(Get(tags, "liq_blankskip")),
      BlankSkipped      |-> Get(tags, "liq_blank_skipped") = Text("true"),
      TruePeak          |-> ParseVal(Get(tags, "liq_true_peak")),
      TruePeakDb        |-> Fmt2U(ParseVal(Get(tags, "liq_true_peak_db")), "dBFS") ]

\* the float64 fields of Result
NumericFields == {"Duration", "CueDuration", "CueIn", "CueOut", "CrossStartNext",
                  "BlankSkip", "TruePeak"}

\* Result.Annotations, err: json.Marshal rejects a float64 that is NaN or
\* infinite (UnsupportedValueError), and Annotations returns nil with that error
AnnotationsErr(r) == \E f \in NumericFields : r[f] = NaN \/ r[f] = NegInf

\* Annotations with the reference loudness left out of the JSON
Annotations_NoReference(r) ==
    [ duration               |-> Fmt3(r.Duration),
      liq_cue_duration       |-> Fmt3(r.CueDuration),
      liq_cue_in             |-> Fmt3(r.CueIn),
      liq_cue_out            |-> Fmt3(r.CueOut),
      liq_cross_start_next   |-> Fmt3(r.CrossStartNext),
      liq_longtail           |-> Text(IF r.LongTail THEN "true" ELSE "false"),
      liq_sustained_ending   |-> Text(IF r.SustainedEnding THEN "true" ELSE "false"),
      liq_loudness           |-> r.Loudness,
      liq_loudness_range     |-> r.LoudnessRange,
      liq_amplify            |-> r.Amplify,
      liq_amplify_adjustment |-> r.AmplifyAdjustment,
      liq_blankskip          |-> Fmt3(r.BlankSkip),
      liq_blank_skipped      |-> Text(IF r.BlankSkipped THEN "true" ELSE "false"),
      liq_true_peak          |-> Fmt3(r.TruePeak),
      liq_true_peak_db       |-> r.TruePeakDb ]

\* Result.Annotations, out: every field under its JSON name, as a string
Annotations(r) ==
    [ duration               |-> Fmt3(r.Duration),
      liq_cue_duration       |-> Fmt3(r.CueDuration),
      liq_cue_in             |-> Fmt3(r.CueIn),
      liq_cue_out            |-> Fmt3(r.CueOut),
      liq_cross_start_next   |-> Fmt3(r.CrossStartNext),
      liq_longtail           |-> Text(IF r.LongTail THEN "true" ELSE "false"),
      liq_sustained_ending   |-> Text(IF r.SustainedEnding THEN "true" ELSE "false"),
      liq_loudness           |-> r.Loudness,
      liq_loudness_range     |-> r.LoudnessRange,
      liq_amplify            |-> r.Amplify,
      liq_amplify_adjustment |-> r.AmplifyAdjustment,
      liq_reference_loudness |-> r.ReferenceLoudness,
      liq_blankskip          |-> Fmt3(r.BlankSkip),
      liq_blank_skipped      |-> Text(IF r.BlankSkipped THEN "true" ELSE "false"),
      liq_true_peak          |-> Fmt3(r.TruePeak),
      liq_true_peak_db       |-> r.TruePeakDb ]

\* the zero Result
ZeroResult ==
    [ Duration |-> 0, CueDuration |-> 0, CueIn |-> 0, CueOut |-> 0,
      CrossStartNext |-> 0, LongTail |-> FALSE, SustainedEnding |-> FALSE,
      Loudness |-> EmptyStr, LoudnessRange |-> EmptyStr, Amplify |-> EmptyStr,
      AmplifyAdjustment |-> EmptyStr, ReferenceLoudness |-> EmptyStr,
      BlankSkip |-> 0, BlankSkipped |-> FALSE, TruePeak |-> 0,
      TruePeakDb |-> EmptyStr ]

(***************************************************************************)
(* State.                                                                  *)
(***************************************************************************)
VARIABLES
    cfg,      \* the Calculator's fields
    file,     \* the audio file: stream duration, stored tags, what the meter measures
    run,      \* 1: first Calc on the file, 2: Calc after the tags were written back
    pc,       \* position of Calc: "probe", "check", "scan", "done"
    tags,     \* the tag map probe returned, as Calc's callees have left it
    check,    \* doPreAnalysis: whether it has run, and the error it returned
    frames,   \* frames parseFFmpegOutput has collected from the meter's output
    meter,    \* the ffmpeg process: "none", "notstarted", "running", "exit0", "exit1", "killed"
    outcome,  \* what Calc returned: [kind, res, err]
    calls,    \* how often Calc has run probe, doPreAnalysis and scan
    audio,    \* the frames of the first run's scan, measured again by a second scan
    prev,     \* the Result of the first run
    call      \* a single call of a pure function: [fn, args, ret]

vars == << cfg, file, run, pc, tags, check, frames, meter, outcome, calls, audio,
           prev, call >>

NoOutcome == [kind |-> "none", res |-> ZeroResult, err |-> NoError]
Returned(res) == [kind |-> "result", res |-> res, err |-> NoError]
Failed(err) == [kind |-> "error", res |-> ZeroResult, err |-> err]
\* runtime panic: frames[len(frames)-1] on an empty slice
Panicked == [kind |-> "panic", res |-> ZeroResult, err |-> NoError]
\* the error of a process that could not start, exited with failure or was killed
ProcessError(what) == [type |-> "ProcessError", inner |-> what]

NotChecked == [done |-> FALSE, err |-> NoError]
Sufficient == check.done /\ check.err = NoError
Insufficient == check.done /\ check.err.type = "ErrRequireAnalysis"

NoCall == [fn |-> "none", args |-> << >>, ret |-> << >>]
NoCalls == [probe |-> 0, doPreAnalysis |-> 0, scan |-> 0]
NoTags == [k \in {} |-> EmptyStr]

(***************************************************************************)
(* Inputs.                                                                 *)
(***************************************************************************)
\* "Measured every 100ms"
FrameStep == 100
\* timestamp of the first frame: last + 0.1 is a multiple of 0.01, or rounds
\* down, or rounds up
FirstPTS == {0, 304, 306}
\* momentary loudness values the meter reports ("nan" on very silent parts)
MomentaryValues == {-70000, -33000, -20000, NaN}

\* configurations of the scan
ScanConfigs ==
    { [DefaultOptions EXCEPT !.silence = so[1], !.overlay = so[2], !.blankSkip = b,
                             !.longtailSeconds = l, !.drop = d] :
        so \in {<<defaultSilence, defaultOverlayLU>>, <<-10000, -20000>>},
        b \in {0, 200, 60000}, l \in {100, defaultLongTailSeconds},
        d \in {0, defaultSustainedLoudnessDrop} }

\* configurations of a whole Calc
CalcConfigs ==
    { [DefaultOptions EXCEPT !.targetLoudness = t, !.noClip = k, !.blankSkip = b] :
        t \in {defaultTargetLUFS, -16000}, k \in BOOLEAN, b \in {0, 200} }

\* the stream duration ffprobe reports
StreamDuration == Num(500, 6, "")

\* tags a tagger left in a file
CachedTags ==
    [ liq_cue_in             |-> Num(0, 2, ""),
      liq_cue_out            |-> Num(400, 2, ""),
      liq_cross_start_next   |-> Num(300, 2, ""),
      replaygain_track_gain  |-> Num(-2500, 2, "dB"),
      liq_amplify            |-> Num(-2500, 2, "dB"),
      liq_amplify_adjustment |-> Num(-700, 2, "dB"),
      liq_reference_loudness |-> Num(-18000, 2, "LUFS"),
      liq_true_peak          |-> Num(986, 3, ""),
      liq_true_peak_db       |-> Num(-122, 3, "dBFS"),
      liq_loudness           |-> Num(-15500, 2, "LUFS"),
      liq_loudness_range     |-> Num(5200, 2, "LU") ]

\* m without the keys in ks
Without(m, ks) == [k \in (DOMAIN m) \ ks |-> m[k]]

\* an audio file
AudioFile(t, p) ==
    [ duration |-> StreamDuration, tags |-> t, integrated |-> -18000,
      truePeak |-> p, lra |-> 5200 ]

\* stored tags with a liq_cue_duration that the stored cue points do not
\* give; in the second the cue-in was written with a decimal comma
StaleCueTags ==
    { Put(CachedTags, "liq_cue_duration", Num(999000, 2, "")),
      Put(Put(CachedTags, "liq_cue_duration", Num(999000, 2, "")),
          "liq_cue_in", Text("0,30")) }

\* the files Calc is run on
Files ==
    { AudioFile(t, p) :
        t \in { NoTags, CachedTags, Without(CachedTags, {"liq_loudness_range"}),
                Put(CachedTags, "liq_blankskip", Num(200, 3, "")) }
              \cup StaleCueTags,
        p \in {0, 986} }

\* the tags whose absence the tag check reports
RequiredTags ==
    { "duration", "liq_cue_in", "liq_cue_out", "liq_cross_start_next",
      "replaygain_track_gain", "liq_amplify", "liq_reference_loudness",
      "liq_true_peak", "liq_true_peak_db", "liq_loudness", "liq_loudness_range" }

\* the tags the tag check is said to parse as numbers
NumericTags == {"liq_true_peak", "liq_true_peak_db", "liq_loudness"}

\* stored tags with a value that is not a number in one tag
BrokenTags == { Put(CachedTags, k, Text("n/a")) : k \in NumericTags \cup {"liq_blankskip"} }

\* stored tags whose gain, correction or reference is not what the stored
\* loudness and peak give: written for another target, or by another tool
StaleGainTags ==
    { Put(CachedTags, "liq_amplify", Num(300, 2, "dB")),
      Put(CachedTags, "liq_amplify_adjustment", Num(0, 2, "dB")),
      Put(CachedTags, "liq_reference_loudness", Num(-23000, 2, "LUFS")) }

\* files for the tag check: any of the stored tags may be missing; an Opus
\* file carries its gain as r128_track_gain; a tagger may have left a text
\* where a number belongs
TagFiles ==
    { AudioFile(Without(t, ks), 986) :
        t \in { CachedTags,
                Put(CachedTags, "liq_blankskip", Num(200, 3, "")),
                Put(CachedTags, "r128_track_gain", Num(-256000, 0, "")) }
              \cup BrokenTags \cup StaleGainTags,
        ks \in SUBSET (RequiredTags \ {"duration"}) }

(***************************************************************************)
(* Calc, step by step: probe, tag check, then the cache path or the scan.  *)
(***************************************************************************)
\* ffprobe ran and its output was parsed
ProbeOk ==
    /\ pc = "probe"
    /\ tags' = probe(file)
    /\ calls' = [calls EXCEPT !.probe = @ + 1]
    /\ pc' = "check"
    /\ UNCHANGED << cfg, file, run, check, frames, meter, outcome, audio, prev, call >>

\* ffprobe exited with failure or was killed at the execution timeout
ProbeFail ==
    /\ pc = "probe"
    /\ \E e \in {"exit status 1", "signal: killed"} : outcome' = Failed(ProcessError(e))
    /\ calls' = [calls EXCEPT !.probe = @ + 1]
    /\ pc' = "done"
    /\ UNCHANGED << cfg, file, run, tags, check, frames, meter, audio, prev, call >>

\* Calc hands the error of the tag check to its caller
PreAnalysis_ReturnsCheckError ==
    /\ pc = "check"
    /\ LET r == doPreAnalysis(cfg, tags)
       IN  /\ check' = [done |-> TRUE, err |-> r.err]
           /\ calls' = [calls EXCEPT !.doPreAnalysis = @ + 1]
           /\ IF r.err = NoError
              THEN /\ tags' = adjustLoudness(cfg, populate(cfg, r.tags))
                   /\ outcome' = Returned(parseTags(tags'))
              ELSE /\ tags' = r.tags
                   /\ outcome' = Failed(r.err)
           /\ pc' = "done"
    /\ UNCHANGED << cfg, file, run, frames, meter, audio, prev, call >>

\* Calc after probe: doPreAnalysis, then the Result from the tags, or scan
\* up to cmd.Start
PreAnalysis ==
    /\ pc = "check"
    /\ LET r == doPreAnalysis(cfg, tags)
       IN  /\ check' = [done |-> TRUE, err |-> r.err]
           /\ IF r.err = NoError
              THEN /\ tags' = adjustLoudness(cfg, populate(cfg, r.tags))
                   /\ outcome' = Returned(parseTags(tags'))
                   /\ calls' = [calls EXCEPT !.doPreAnalysis = @ + 1]
                   /\ pc' = "done"
                   /\ UNCHANGED << frames, meter >>
              ELSE /\ tags' = r.tags
                   /\ calls' = [calls EXCEPT !.doPreAnalysis = @ + 1, !.scan = @ + 1]
                   /\ frames' = << >>
                   /\ \/ /\ meter' = "running"
                         /\ pc' = "scan"
                         /\ UNCHANGED outcome
                      \/ /\ meter' = "notstarted"
                         /\ outcome' = Failed(ProcessError("start"))
                         /\ pc' = "done"
    /\ UNCHANGED << cfg, file, run, audio, prev, call >>

\* parseFFmpegOutput reads one more frame with its values from the meter's output
MeterEmit ==
    /\ pc = "scan"
    /\ meter = "running"
    /\ Len(frames) < MaxFrames
    /\ \E t \in FirstPTS, m \in MomentaryValues :
          LET fr == [ PTSTime            |-> IF frames = << >> THEN t
                                             ELSE frames[Len(frames)].PTSTime + FrameStep,
                      Loudness           |-> m,
                      IntegratedLoudness |-> file.integrated,
                      TruePeak           |-> file.truePeak,
                      LRA                |-> file.lra ]
          IN  /\ run = 2 => Len(frames) < Len(audio) /\ fr = audio[Len(frames) + 1]
              /\ frames' = Append(frames, fr)
    /\ UNCHANGED << cfg, file, run, pc, tags, check, meter, outcome, calls, audio, prev,
                    call >>

\* what scan returns once the meter's output has ended
ScanOutcome(c, fr) == IF fr = << >> THEN Panicked ELSE Returned(ScanResult(c, fr))

\* scan keeps the lowered overlay level of a recomputation in the Calculator
ScanEOF_KeepsLoweredLevel ==
    /\ pc = "scan"
    /\ meter = "running"
    /\ \E how \in {"exit0", "exit1", "killed"} :
          /\ run = 2 => how = "exit0" /\ frames = audio
          /\ meter' = how
    /\ outcome' = IF frames = << >> THEN Panicked ELSE Returned(ScanResult(cfg, frames))
    /\ cfg' = IF frames # << >> /\ (Analysis(cfg, frames).longtail
                                    \/ Analysis(cfg, frames).sustained)
              THEN [cfg EXCEPT !.overlay = @ + cfg.extra] ELSE cfg
    /\ pc' = "done"
    /\ UNCHANGED << file, run, tags, check, frames, calls, audio, prev, call >>

\* the meter's output ends (the process exited, failed, or was killed at the
\* execution timeout) and scan goes on with the frames it has
ScanEOF ==
    /\ pc = "scan"
    /\ meter = "running"
    /\ \E how \in {"exit0", "exit1", "killed"} :
          /\ run = 2 => how = "exit0" /\ frames = audio
          /\ meter' = how
    /\ outcome' = ScanOutcome(cfg, frames)
    /\ pc' = "done"
    /\ UNCHANGED << cfg, file, run, tags, check, frames, calls, audio, prev, call >>

\* the state before Calc is called on file f with configuration c
CalcEntry(c, f) ==
    /\ cfg = c
    /\ file = f
    /\ run = 1
    /\ pc = "probe"
    /\ tags = NoTags
    /\ check = NotChecked
    /\ frames = << >>
    /\ meter = "none"
    /\ outcome = NoOutcome
    /\ calls = NoCalls
    /\ audio = << >>
    /\ prev = ZeroResult
    /\ call = NoCall

Init == \E c \in CalcConfigs, f \in Files : CalcEntry(c, f)

Next == ProbeOk \/ ProbeFail \/ PreAnalysis \/ MeterEmit \/ ScanEOF

Spec == Init /\ [][Next]_vars

(***************************************************************************)
(* The scan alone, on every series and scan configuration.                 *)
(***************************************************************************)
InitScan ==
    /\ cfg \in ScanConfigs
    /\ file = AudioFile(NoTags, 986)
    /\ run = 1
    /\ pc = "scan"
    /\ tags = probe(file)
    /\ check = [done |-> TRUE, err |-> doPreAnalysis(cfg, tags).err]
    /\ frames = << >>
    /\ meter = "running"
    /\ outcome = NoOutcome
    /\ calls = [probe |-> 1, doPreAnalysis |-> 1, scan |-> 1]
    /\ audio = << >>
    /\ prev = ZeroResult
    /\ call = NoCall

NextScan == MeterEmit \/ ScanEOF

SpecScan == InitScan /\ [][NextScan]_vars

(***************************************************************************)
(* The tag check alone, on tag maps with any of the tags missing.          *)
(***************************************************************************)
InitTags ==
    /\ cfg \in CalcConfigs
    /\ file \in TagFiles
    /\ run = 1
    /\ pc = "check"
    /\ tags = probe(file)
    /\ check = NotChecked
    /\ frames = << >>
    /\ meter = "none"
    /\ outcome = NoOutcome
    /\ calls = [probe |-> 1, doPreAnalysis |-> 0, scan |-> 0]
    /\ audio = << >>
    /\ prev = ZeroResult
    /\ call = NoCall

NextTags == PreAnalysis

SpecTags == InitTags /\ [][NextTags]_vars

(***************************************************************************)
(* Round trip: a scan, its Result written back as tags, Calc again.        *)
(***************************************************************************)
\* ReplayGain tags from the Result ("for RG writing")
ReplayGainTags(r) ==
    [ replaygain_track_gain         |-> r.Amplify,
      replaygain_track_peak         |-> Fmt3(r.TruePeak),
      replaygain_track_range        |-> r.LoudnessRange,
      replaygain_reference_loudness |-> r.ReferenceLoudness ]

\* m with every entry of n
Merge(m, n) ==
    [k \in (DOMAIN m) \cup (DOMAIN n) |-> IF k \in DOMAIN n THEN n[k] ELSE m[k]]

\* the caller writes the Annotations of a complete scan's Result into the
\* file, alone or with ReplayGain tags, and calls Calc again
StoreTags ==
    /\ pc = "done"
    /\ run = 1
    /\ outcome.kind = "result"
    /\ meter = "exit0"
    /\ \E rg \in BOOLEAN :
          file' = [file EXCEPT !.tags =
                      IF rg THEN Merge(Annotations(outcome.res), ReplayGainTags(outcome.res))
                      ELSE Annotations(outcome.res)]
    /\ prev' = outcome.res
    /\ audio' = frames
    /\ run' = 2
    /\ pc' = "probe"
    /\ tags' = NoTags
    /\ check' = NotChecked
    /\ frames' = << >>
    /\ meter' = "none"
    /\ outcome' = NoOutcome
    /\ calls' = NoCalls
    /\ UNCHANGED << cfg, call >>

InitRoundTrip ==
    \E c \in {k \in CalcConfigs : k.blankSkip > 0}, p \in {0, 986} :
        CalcEntry(c, AudioFile(NoTags, p))

NextRoundTrip ==
    ProbeOk \/ ProbeFail \/ PreAnalysis \/ MeterEmit \/ ScanEOF \/ StoreTags

SpecRoundTrip == InitRoundTrip /\ [][NextRoundTrip]_vars

(***************************************************************************)
(* The Gain Calculator alone.                                              *)
(***************************************************************************)
\* integrated loudness and true peak in dB handed to calcAmplify
LoudnessValues == {-23000, -18000, -15500, -9000}
TruePeakDbValues == {NegInf, -6021, -1000, -122, 0, 1000}

InitAmplify ==
    /\ cfg \in CalcConfigs
    /\ \E l \in LoudnessValues, p \in TruePeakDbValues :
          call = [fn |-> "calcAmplify", args |-> << l, p >>, ret |-> << >>]
    /\ file = AudioFile(NoTags, 0)
    /\ run = 1
    /\ pc = "call"
    /\ tags = NoTags
    /\ check = NotChecked
    /\ frames = << >>
    /\ meter = "none"
    /\ outcome = NoOutcome
    /\ calls = NoCalls
    /\ audio = << >>
    /\ prev = ZeroResult

CallCalcAmplify ==
    /\ pc = "call"
    /\ call.fn = "calcAmplify"
    /\ LET r == calcAmplify(cfg, call.args[1], call.args[2])
       IN  call' = [call EXCEPT !.ret = << r.amplify, r.amplifyCorrection >>]
    /\ pc' = "returned"
    /\ UNCHANGED << cfg, file, run, tags, check, frames, meter, outcome, calls, audio,
                    prev >>

NextAmplify == CallCalcAmplify

SpecAmplify == InitAmplify /\ [][NextAmplify]_vars

(***************************************************************************)
(* Result.Annotations alone.                                               *)
(***************************************************************************)
\* Results handed to Annotations
Results ==
    { [ZeroResult EXCEPT !.Duration = d, !.CueOut = o, !.TruePeak = p,
                         !.LongTail = l, !.BlankSkipped = b, !.Loudness = s,
                         !.TruePeakDb = Fmt3U(-1200, "dBFS")] :
        d \in {0, 101100}, o \in {0, 95540}, p \in {0, -570, NaN},
        l \in BOOLEAN, b \in BOOLEAN,
        s \in {EmptyStr, Fmt3U(-18000, "LUFS"), Text("n/a")} }

InitAnnotations ==
    /\ cfg = DefaultOptions
    /\ \E r \in Results :
          call = [fn |-> "Annotations", args |-> << r >>, ret |-> << >>]
    /\ file = AudioFile(NoTags, 0)
    /\ run = 1
    /\ pc = "call"
    /\ tags = NoTags
    /\ check = NotChecked
    /\ frames = << >>
    /\ meter = "none"
    /\ outcome = NoOutcome
    /\ calls = NoCalls
    /\ audio = << >>
    /\ prev = ZeroResult

\* r.Annotations(): << out, err >>, out nil (no keys) with an error
CallAnnotations ==
    /\ pc = "call"
    /\ call.fn = "Annotations"
    /\ LET r == call.args[1]
       IN  call' = [call EXCEPT !.ret =
                       IF AnnotationsErr(r) THEN << NoTags, TRUE >>
                       ELSE << Annotations(r), FALSE >>]
    /\ pc' = "returned"
    /\ UNCHANGED << cfg, file, run, tags, check, frames, meter, outcome, calls, audio,
                    prev >>

NextAnnotations == CallAnnotations

SpecAnnotations == InitAnnotations /\ [][NextAnnotations]_vars

(***************************************************************************)
(* takePureValue alone, on strings of characters.                          *)
(***************************************************************************)
\* characters of a tag value: signs, a digit, the point, a letter, a blank
Alphabet == {"-", "+", "4", ".", "d", " "}
Digits == {"4"}
Signs == {"+", "-"}

\* strings of at most n characters
Strings(n) == UNION { [1 .. k -> Alphabet] : k \in 0 .. n }

\* length of the run of digits of val that starts at position i
RECURSIVE DigitRun(_, _)
DigitRun(val, i) ==
    IF i <= Len(val) /\ val[i] \in Digits THEN 1 + DigitRun(val, i + 1) ELSE 0

\* the ways ([+-]?)(\d*)(\.?)(\d+) matches at position i: sign taken, digits
\* taken by \d*, point taken, and the position after the match
MatchesAt(val, i) ==
    { m \in [s : {0, 1}, k : 0 .. Len(val), d : {0, 1}, end : 1 .. Len(val) + 1] :
        /\ m.s = 1 => i <= Len(val) /\ val[i] \in Signs
        /\ m.k <= DigitRun(val, i + m.s)
        /\ m.d = 1 => i + m.s + m.k <= Len(val) /\ val[i + m.s + m.k] = "."
        /\ DigitRun(val, i + m.s + m.k + m.d) >= 1
        /\ m.end = i + m.s + m.k + m.d + DigitRun(val, i + m.s + m.k + m.d) }

\* a is tried before b: every quantifier is greedy, the leftmost one decides
Preferred(a, b) ==
    \/ a.s > b.s
    \/ a.s = b.s /\ a.k > b.k
    \/ a.s = b.s /\ a.k = b.k /\ a.d >= b.d

\* a pattern with no sign in it
digitalValRegex_Unsigned(val) ==
    LET starts == { i \in 1 .. Len(val) : \E m \in MatchesAt(val, i) : m.s = 0 }
    IN  IF starts = {} THEN << >>
        ELSE LET i  == CHOOSE x \in starts : \A y \in starts : x <= y
                 ms == { m \in MatchesAt(val, i) : m.s = 0 }
                 m  == CHOOSE a \in ms : \A b \in ms : Preferred(a, b)
             IN  << SubSeq(val, i, m.end - 1) >>

\* digitalValRegex.FindStringSubmatch(val): no element without a match, else
\* the text of the leftmost match, the first one in the order of preference
digitalValRegex(val) ==
    LET starts == { i \in 1 .. Len(val) : MatchesAt(val, i) # {} }
    IN  IF starts = {} THEN << >>
        ELSE LET i == CHOOSE x \in starts : \A y \in starts : x <= y
                 m == CHOOSE a \in MatchesAt(val, i) :
                         \A b \in MatchesAt(val, i) : Preferred(a, b)
             IN  << SubSeq(val, i, m.end - 1) >>

\* takePureValue(key, val) on a string of characters: [res, err]
takePureValueOf(key, val) ==
    IF key \notin needsCleaning THEN [res |-> val, err |-> FALSE]
    ELSE LET res == digitalValRegex(val)
         IN  IF Len(res) < 1 THEN [res |-> << >>, err |-> TRUE]
             ELSE [res |-> res[1], err |-> FALSE]

\* keys handed to takePureValue: two that carry a unit, one that does not
PureKeys == {"liq_amplify", "liq_true_peak_db", "liq_true_peak"}

InitPure ==
    /\ cfg = DefaultOptions
    /\ \E k \in PureKeys, v \in Strings(MaxChars) :
          call = [fn |-> "takePureValue", args |-> << k, v >>, ret |-> << >>]
    /\ file = AudioFile(NoTags, 0)
    /\ run = 1
    /\ pc = "call"
    /\ tags = NoTags
    /\ check = NotChecked
    /\ frames = << >>
    /\ meter = "none"
    /\ outcome = NoOutcome
    /\ calls = NoCalls
    /\ audio = << >>
    /\ prev = ZeroResult

CallTakePureValue ==
    /\ pc = "call"
    /\ call.fn = "takePureValue"
    /\ LET r == takePureValueOf(call.args[1], call.args[2])
       IN  call' = [call EXCEPT !.ret = << r.res, r.err >>]
    /\ pc' = "returned"
    /\ UNCHANGED << cfg, file, run, tags, check, frames, meter, outcome, calls, audio,
                    prev >>

NextPure == CallTakePureValue

SpecPure == InitPure /\ [][NextPure]_vars

(***************************************************************************)
(* Properties.                                                             *)
(***************************************************************************)
\* Calc has returned a Result computed by scan
ScanReturned == pc = "done" /\ outcome.kind = "result" /\ Insufficient

\* 0 <= cueIn <= cueOut <= duration in a Result
CueOrder(r) == 0 <= r.CueIn /\ r.CueIn <= r.CueOut /\ r.CueOut <= r.Duration

\* C1 (as amended): for every non-empty series with non-negative, strictly
\* increasing timestamps and every configuration, blank skip disabled or
\* enabled, the Result of scan has 0 <= cueIn <= cueOut <= duration, where
\* duration is the last timestamp plus 0.1, rounded to two decimals.
C1_CueOrder ==
    ScanReturned =>
        /\ CueOrder(outcome.res)
        /\ outcome.res.Duration = Round2(frames[Len(frames)].PTSTime + 100)

\* C1 as stated: the same with duration exactly the last timestamp plus 0.1.
C1_AsStated ==
    ScanReturned =>
        /\ CueOrder(outcome.res)
        /\ outcome.res.Duration = frames[Len(frames)].PTSTime + 100

\* a scan with blank skip enabled that trims both ends of the track
C1_Witness ==
    /\ ScanReturned
    /\ cfg.blankSkip > 0
    /\ 0 < outcome.res.CueIn
    /\ outcome.res.CueOut < outcome.res.Duration

\* C2: for every configuration inside the ranges the command line accepts,
\* the final crossStartNext of a scan is never greater than cueOut.
C2_CrossStartBeforeCueOut ==
    (ScanReturned /\ validateRanges(cfg)) =>
        outcome.res.CrossStartNext <= outcome.res.CueOut

\* C3: in Calc the tag probe runs first; a failed probe ends Calc with that
\* error and without a scan; a sufficient tag check ends Calc with the Result
\* built from the tags and without a scan; an insufficient tag check starts
\* exactly one scan, whose outcome is Calc's outcome; ErrRequireAnalysis is
\* never returned to the caller and nothing is run twice.
C3_CalcFlow ==
    /\ calls.probe <= 1 /\ calls.doPreAnalysis <= 1 /\ calls.scan <= 1
    /\ calls.doPreAnalysis = (IF check.done THEN 1 ELSE 0)
    /\ check.done => calls.probe = 1
    /\ calls.scan = (IF Insufficient THEN 1 ELSE 0)
    /\ outcome.err.type # "ErrRequireAnalysis"
    /\ pc = "done" =>
          /\ calls.probe = 1
          /\ ~check.done => outcome.kind = "error" /\ outcome.err.type = "ProcessError"
          /\ Sufficient => outcome = Returned(parseTags(tags))
          /\ Insufficient =>
                outcome = IF meter = "notstarted" THEN Failed(ProcessError("start"))
                          ELSE ScanOutcome(cfg, frames)

\* Calc has fallen back to the scan after an insufficient tag check and
\* returned the scan's Result
C3_Witness ==
    /\ pc = "done"
    /\ Insufficient
    /\ calls.scan = 1
    /\ outcome.kind = "result"
    /\ DOMAIN file.tags # {}

\* C4: when the probe process or the meter process fails or is killed at the
\* execution timeout, Calc returns an error and no Result; a meter killed
\* after emitting some samples never leads to a Result computed from the
\* truncated series.
C4_ProcessFailureIsError ==
    /\ (pc = "done" /\ ~check.done) => outcome.kind = "error"
    /\ (pc = "done" /\ meter \in {"exit1", "killed"}) => outcome.kind # "result"

\* C5: when the meter produces an empty sample series, scan ends with an
\* error returned to the caller: no Result and no crash.
C5_EmptySeriesIsError ==
    (pc = "done" /\ meter \in {"exit0", "exit1", "killed"} /\ frames = << >>) =>
        outcome.kind = "error"

\* C6: cache round trip: when the tags stored for a file are exactly the
\* Annotations of a Result produced by scan, a later tag check with the same
\* configuration is sufficient and Calc skips the scan.
C6_RoundTripSkipsScan ==
    (run = 2 /\ file.tags = Annotations(prev) /\ check.done) =>
        Sufficient /\ calls.scan = 0

\* C7: whenever the tag check is sufficient for tags that carry a scan's
\* values unmodified, with the same configuration, every field of the Result
\* built from the tags equals the field of the scan's Result.
C7_CachePathEqualsScanPath ==
    (run = 2 /\ pc = "done" /\ Sufficient) => outcome.res = prev

\* gain and gain correction of a Result, and its loudness and true peak in dB
Gain(r) == r.Amplify.v
GainCorrection(r) == r.AmplifyAdjustment.v

\* C8: calcAmplify(loudness, truePeakDb) returns gain = target - loudness and
\* correction = 0 when clip prevention is off or target - loudness <=
\* -1 - truePeakDb; otherwise gain = -1 - truePeakDb exactly and
\* correction = (-1 - truePeakDb) - (target - loudness).
C8_CalcAmplify ==
    (call.fn = "calcAmplify" /\ pc = "returned") =>
        LET loudness   == call.args[1]
            truePeakDb == call.args[2]
            unclamped  == cfg.targetLoudness - loudness
            \* -1 - truePeakDb is +Inf for truePeakDb = -Inf
            within     == truePeakDb = NegInf \/ unclamped <= -1000 - truePeakDb
        IN  IF ~cfg.noClip \/ within
            THEN call.ret = << unclamped, 0 >>
            ELSE call.ret = << -1000 - truePeakDb, (-1000 - truePeakDb) - unclamped >>

\* calcAmplify has limited the gain
C8_Witness ==
    /\ call.fn = "calcAmplify"
    /\ pc = "returned"
    /\ cfg.noClip
    /\ call.ret[2] < 0

\* C9: in every Result Calc returns with clip prevention enabled, from the
\* scan or from the tags, gain + truePeakDb <= -1, gainCorrection <= 0 and
\* gain - gainCorrection = targetLoudness - loudness; with clip prevention
\* disabled gainCorrection is 0 on both paths.
C9_ClipPreventionInResult ==
    (pc = "done" /\ outcome.kind = "result") =>
        LET r == outcome.res
        IN  IF cfg.noClip
            THEN /\ r.TruePeakDb.v = NegInf \/ Gain(r) + r.TruePeakDb.v <= -1000
                 /\ GainCorrection(r) <= 0
                 /\ Gain(r) - GainCorrection(r) = cfg.targetLoudness - r.Loudness.v
            ELSE GainCorrection(r) = 0

\* C10 as stated: the tag check answers insufficient with an
\* ErrRequireAnalysis naming the absent tag whenever one of the eleven
\* required tags is absent, and is never sufficient with one of them absent.
C10_AsStated ==
    check.done =>
        LET missing == RequiredTags \ DOMAIN probe(file)
        IN  /\ missing # {} => Insufficient /\ check.err.inner \in missing
            /\ Sufficient => missing = {}

\* C10 (as amended): the tag check answers insufficient whenever one of the
\* eleven required tags is absent from the tag map and is never sufficient
\* with one of them absent; the ErrRequireAnalysis names an absent tag (a
\* single absent tag is the one named), except that with liq_loudness_range
\* the only absent tag and a stored liq_blankskip the error may report the
\* blank-skip mismatch, which is checked first; a map with r128_track_gain
\* but no replaygain_track_gain is insufficient.
C10_MissingTagIsInsufficient ==
    check.done =>
        LET probed  == probe(file)
            missing == RequiredTags \ DOMAIN probed
        IN  /\ missing # {} =>
                  /\ Insufficient
                  /\ \/ check.err.inner \in missing
                     \/ /\ missing = {"liq_loudness_range"}
                        /\ Has(probed, "liq_blankskip")
                        /\ ParseVal(probed["liq_blankskip"]) # cfg.blankSkip
                        /\ check.err.inner = "liq_blankskip"
            /\ Sufficient => missing = {}

\* a file with r128_track_gain as its only gain reference has been checked
C10_Witness ==
    /\ check.done
    /\ Insufficient
    /\ RequiredTags \ DOMAIN probe(file) = {"replaygain_track_gain"}
    /\ Has(probe(file), "r128_track_gain")

\* C11: the tag check answers insufficient whenever liq_true_peak,
\* liq_true_peak_db or liq_loudness is stored with a value that is not a
\* number; no such tag map is accepted as sufficient.
C11_UnparseableTagIsInsufficient ==
    (check.done /\ \E k \in NumericTags :
                      Has(file.tags, k) /\ ~HasDigits(file.tags[k])) =>
        Insufficient

\* C12: a stored liq_blankskip that differs from the configured blank skip,
\* or is not a number, makes the tag check insufficient; the Result built
\* from the tags always carries the configured blank skip.
C12_BlankSkipMismatchIsInsufficient ==
    /\ (check.done /\ Has(file.tags, "liq_blankskip")
                   /\ (~ParseOk(file.tags["liq_blankskip"])
                       \/ ParseVal(file.tags["liq_blankskip"]) # cfg.blankSkip)) =>
          Insufficient
    /\ (pc = "done" /\ Sufficient) => outcome.res.BlankSkip = cfg.blankSkip

LastTimeAbove(fr, lo, hi, level) ==
    LET hits == { i \in lo .. (hi - 1) : fr[i + 1].Loudness # NaN /\ fr[i + 1].Loudness > level }
    IN  IF hits = {} THEN 0
        ELSE fr[(CHOOSE i \in hits : \A j \in hits : j <= i) + 1].PTSTime

\* the overlay candidate for a level: the last frame of the scan window above
\* it, after the max(t, cueOut - t) correction
OverlayFor(c, fr, level) ==
    LET a == Analysis(c, fr)
        t == LastTimeAbove(fr, a.start, a.end, level)
    IN  Max(t, a.cueOutTime - t)

\* the normal cue-out: the last frame above the silence level, after the
\* max(t, duration - t) correction
NormalCueOut(c, fr) ==
    LET a == Analysis(c, fr)
        t == LastTimeAbove(fr, a.start, Len(fr), a.loudness + c.silence)
    IN  Max(t, a.duration - t)

\* C14: blankSkipped in a scan's Result implies a configured blank skip > 0
\* and a blank candidate strictly before the normal cue-out, which is then the
\* cue-out; with blank skip 0 blankSkipped is false and the cue-out is the
\* normal one.
C14_BlankSkipped ==
    ScanReturned =>
        LET a == Analysis(cfg, frames)
            r == outcome.res
        IN  /\ r.BlankSkipped =>
                  /\ cfg.blankSkip > 0
                  /\ 0 < a.cueOutTimeBlank
                  /\ a.cueOutTimeBlank < NormalCueOut(cfg, frames)
                  /\ r.CueOut = a.cueOutTimeBlank
            /\ cfg.blankSkip = 0 =>
                  ~r.BlankSkipped /\ r.CueOut = NormalCueOut(cfg, frames)

\* a scan has cut the track at a blank
C14_Witness ==
    ScanReturned /\ outcome.res.BlankSkipped /\ outcome.res.CueOut < frames[Len(frames)].PTSTime

\* C15: longTail in a scan's Result is true exactly when the cue-out minus
\* the normal overlay time exceeds the configured long-tail seconds.
C15_LongTailIff ==
    ScanReturned =>
        LET normal == OverlayFor(cfg, frames, Analysis(cfg, frames).loudness + cfg.overlay)
        IN  outcome.res.LongTail <=> (outcome.res.CueOut - normal > cfg.longtailSeconds)

\* a scan has found a long tail
C15_Witness ==
    ScanReturned /\ outcome.res.LongTail

C17_DropZeroSwitchesOff ==
    (ScanReturned /\ cfg.drop = 0) =>
        /\ ~outcome.res.SustainedEnding
        /\ Analysis(cfg, frames).startNextTimeSustained = 0

\* C18: the final crossStartNext of a scan's Result is the maximum of the
\* normal, the sustained and the long-tail overlay candidates, a candidate not
\* computed counting as 0; it is never earlier than the normal candidate.
C18_FinalOverlayIsMax ==
    ScanReturned =>
        LET a      == Analysis(cfg, frames)
            normal == OverlayFor(cfg, frames, a.loudness + cfg.overlay)
            sust   == IF a.sustained THEN a.startNextTimeSustained ELSE 0
            long   == IF a.longtail
                      THEN OverlayFor(cfg, frames, a.loudness + cfg.overlay + cfg.extra)
                      ELSE 0
            cands  == {normal, sust, long}
        IN  /\ outcome.res.CrossStartNext \in cands
            /\ \A x \in cands : x <= outcome.res.CrossStartNext
            /\ outcome.res.CrossStartNext >= normal

\* a recomputed candidate has won over the normal one
C18_Witness ==
    /\ ScanReturned
    /\ outcome.res.CrossStartNext > Analysis(cfg, frames).startNextTime

\* C19: whenever a scan's Result reports longTail, the overlay point
\* recomputed with the extra offset is strictly closer to the cue-out than the
\* normal one: normal overlay < long-tail overlay <= cueOut.
C19_LongTailCloser ==
    (ScanReturned /\ outcome.res.LongTail) =>
        LET a      == Analysis(cfg, frames)
            normal == OverlayFor(cfg, frames, a.loudness + cfg.overlay)
            long   == OverlayFor(cfg, frames, a.loudness + cfg.overlay + cfg.extra)
        IN  normal < long /\ long <= outcome.res.CueOut

\* C20: for a non-empty series in which no frame exceeds the silence level
\* the scan returns a Result with cueIn = 0 and cueOut = 0.
C20_SilentTrack ==
    (pc = "done" /\ Insufficient /\ meter = "exit0" /\ frames # << >>
       /\ \A i \in 1 .. Len(frames) :
             ~(frames[i].Loudness # NaN
               /\ frames[i].Loudness > frames[Len(frames)].IntegratedLoudness + cfg.silence)) =>
        /\ outcome.kind = "result"
        /\ outcome.res.CueIn = 0
        /\ outcome.res.CueOut = 0

\* the 16 JSON names of Result's fields
AnnotationKeys ==
    { "duration", "liq_cue_duration", "liq_cue_in", "liq_cue_out",
      "liq_cross_start_next", "liq_longtail", "liq_sustained_ending", "liq_loudness",
      "liq_loudness_range", "liq_amplify", "liq_amplify_adjustment",
      "liq_reference_loudness", "liq_blankskip", "liq_blank_skipped", "liq_true_peak",
      "liq_true_peak_db" }

\* Annotations returned no error and the 16 keys: strings unchanged, booleans
\* as "true" or "false", numbers with three fractional digits
AnnotationsComplete(r, ret) ==
    LET out == ret[1]
        bool(b) == [kind |-> "text", v |-> 0, prec |-> 0,
                    unit |-> IF b THEN "true" ELSE "false"]
        dec(x)  == [kind |-> "num", v |-> x, prec |-> 3, unit |-> ""]
    IN  /\ ret[2] = FALSE
        /\ DOMAIN out = AnnotationKeys
        /\ out["liq_loudness"] = r.Loudness
        /\ out["liq_loudness_range"] = r.LoudnessRange
        /\ out["liq_amplify"] = r.Amplify
        /\ out["liq_amplify_adjustment"] = r.AmplifyAdjustment
        /\ out["liq_reference_loudness"] = r.ReferenceLoudness
        /\ out["liq_true_peak_db"] = r.TruePeakDb
        /\ out["liq_longtail"] = bool(r.LongTail)
        /\ out["liq_sustained_ending"] = bool(r.SustainedEnding)
        /\ out["liq_blank_skipped"] = bool(r.BlankSkipped)
        /\ out["duration"] = dec(r.Duration)
        /\ out["liq_cue_duration"] = dec(r.CueDuration)
        /\ out["liq_cue_in"] = dec(r.CueIn)
        /\ out["liq_cue_out"] = dec(r.CueOut)
        /\ out["liq_cross_start_next"] = dec(r.CrossStartNext)
        /\ out["liq_blankskip"] = dec(r.BlankSkip)
        /\ out["liq_true_peak"] = dec(r.TruePeak)

\* C21 as stated: for every Result, Annotations returns without error a map
\* with exactly the 16 keys, string fields unchanged, boolean fields as "true"
\* or "false" and numeric fields with three fractional digits.
C21_AsStated ==
    (call.fn = "Annotations" /\ pc = "returned") =>
        AnnotationsComplete(call.args[1], call.ret)

\* C21 (as amended): the same for every Result whose numeric fields are all
\* finite; for a Result with a NaN or infinite numeric field Annotations
\* returns an error and no map.
C21_Annotations ==
    (call.fn = "Annotations" /\ pc = "returned") =>
        LET r == call.args[1]
        IN  IF \A f \in NumericFields : r[f] # NaN /\ r[f] # NegInf
            THEN AnnotationsComplete(r, call.ret)
            ELSE call.ret = << NoTags, TRUE >>

\* Annotations has returned the map of a Result with true flags and a unit
\* in a string field
C21_Witness ==
    /\ call.fn = "Annotations"
    /\ pc = "returned"
    /\ call.ret[2] = FALSE
    /\ call.args[1].LongTail
    /\ call.args[1].Loudness.unit = "LUFS"
    /\ call.args[1].CueOut > 0

\* w is a signed decimal number: an optional sign, digits with at most one
\* point among them, the last character a digit
IsNumber(w) ==
    LET body == IF Len(w) >= 1 /\ w[1] \in Signs THEN SubSeq(w, 2, Len(w)) ELSE w
    IN  /\ Len(body) >= 1
        /\ \A i \in 1 .. Len(body) : body[i] \in Digits \cup {"."}
        /\ Cardinality({ i \in 1 .. Len(body) : body[i] = "." }) <= 1
        /\ body[Len(body)] \in Digits

\* the leftmost number in val, at its longest: << >> when val holds none
LeftmostNumber(val) ==
    LET spans == { p \in (1 .. Len(val)) \X (1 .. Len(val)) :
                     p[1] <= p[2] /\ IsNumber(SubSeq(val, p[1], p[2])) }
    IN  IF spans = {} THEN << >>
        ELSE LET p == CHOOSE a \in spans :
                         \A b \in spans : a[1] < b[1] \/ (a[1] = b[1] /\ a[2] >= b[2])
             IN  SubSeq(val, p[1], p[2])

\* C22: takePureValue returns val unchanged and no error for a key outside
\* the nine unit-carrying tags; for a unit-carrying key the leftmost signed
\* decimal number in val and no error; and the empty string with an error
\* exactly when the key is unit-carrying and val holds no digit.
C22_TakePureValue ==
    (call.fn = "takePureValue" /\ pc = "returned") =>
        LET key     == call.args[1]
            val     == call.args[2]
            noDigit == \A i \in 1 .. Len(val) : val[i] \notin Digits
        IN  /\ key \notin needsCleaning => call.ret = << val, FALSE >>
            /\ (key \in needsCleaning /\ ~noDigit) =>
                  call.ret = << LeftmostNumber(val), FALSE >>
            /\ call.ret[2] <=> (key \in needsCleaning /\ noDigit)
            /\ call.ret[2] => call.ret[1] = << >>

\* takePureValue has taken a signed number out of a value with a unit
C22_Witness ==
    /\ call.fn = "takePureValue"
    /\ pc = "returned"
    /\ call.args = << "liq_true_peak_db", << "-", "4", " ", "d" >> >>
    /\ call.ret = << << "-", "4" >>, FALSE >>

\* the series with every momentary loudness reported as "nan" taken as
\* negative infinity
NanAsNegInf(fr) ==
    [ i \in 1 .. Len(fr) |->
        IF fr[i].Loudness = NaN THEN [fr[i] EXCEPT !.Loudness = NegInf] ELSE fr[i] ]

\* C23: a frame whose momentary loudness the meter reports as "nan" is
\* treated as negative infinity: it never exceeds the silence or the overlay
\* level, and in blank detection it is at or below the silence level, so it
\* continues a silent run.
C23_NanIsSilent ==
    ScanReturned =>
        LET a   == Analysis(cfg, frames)
            inf == NanAsNegInf(frames)
            len == Len(frames)
        IN  /\ \A lvl \in {a.loudness + cfg.silence, a.loudness + cfg.overlay} :
                  /\ FirstAbove(frames, 0, len, Level(lvl)) = FirstAbove(inf, 0, len, Level(lvl))
                  /\ LastAbove(frames, 0, len, Level(lvl)) = LastAbove(inf, 0, len, Level(lvl))
            /\ cfg.blankSkip > 0 =>
                  a.cueOutTimeBlank =
                      BlankSearch(inf, a.start, len, a.silenceLevel, cfg.blankSkip,
                                  len).cueOutTimeBlank

\* the frames (Go indices) whose momentary loudness exceeds the silence level
AboveSilence(c, fr) ==
    { i \in 0 .. (Len(fr) - 1) :
        /\ fr[i + 1].Loudness # NaN
        /\ fr[i + 1].Loudness > fr[Len(fr)].IntegratedLoudness + c.silence }

\* C24: cueIn is the timestamp of the first frame whose momentary loudness
\* is strictly greater than the last frame's integrated loudness plus the
\* silence offset, except that it is 0 when that timestamp is below 0.4 or
\* when no frame exceeds the level.
C24_CueInRule ==
    ScanReturned =>
        LET hits == AboveSilence(cfg, frames)
        IN  IF hits = {} THEN outcome.res.CueIn = 0
            ELSE LET first == CHOOSE i \in hits : \A j \in hits : i <= j
                     t     == frames[first + 1].PTSTime
                 IN  outcome.res.CueIn = IF t < 400 THEN 0 ELSE t

\* the cue-in is a frame after the first one, at 0.4 s or later, with
\* another frame above the silence level behind it
C24_Witness ==
    /\ ScanReturned
    /\ outcome.res.CueIn >= 400
    /\ outcome.res.CueIn > frames[1].PTSTime
    /\ Cardinality(AboveSilence(cfg, frames)) >= 2

\* C25: when no blank is skipped and t is the timestamp of the last frame
\* above the silence level, cueOut = max(t, duration - t); so cueOut >= t, and
\* cueOut = t exactly when t >= duration / 2.
C25_CueOutRule ==
    (ScanReturned /\ ~outcome.res.BlankSkipped /\ AboveSilence(cfg, frames) # {}) =>
        LET hits == AboveSilence(cfg, frames)
            last == CHOOSE i \in hits : \A j \in hits : j <= i
            t    == frames[last + 1].PTSTime
            r    == outcome.res
        IN  /\ r.CueOut = (IF t >= r.Duration - t THEN t ELSE r.Duration - t)
            /\ r.CueOut >= t
            /\ (r.CueOut = t) <=> (2 * t >= r.Duration)

\* a normal cue-out moved behind the last frame above the silence level
C25_Witness ==
    /\ ScanReturned
    /\ ~outcome.res.BlankSkipped
    /\ AboveSilence(cfg, frames) # {}
    /\ \A i \in AboveSilence(cfg, frames) : outcome.res.CueOut > frames[i + 1].PTSTime
    /\ Len(frames) >= 3

\* sample i (0-based) of the series is at or below the silence level
Silent(c, fr, i) ==
    /\ fr[i + 1].Loudness # NaN
    /\ fr[i + 1].Loudness <= fr[Len(fr)].IntegratedLoudness + c.silence

\* the index the forward search starts from: the cue-in sample, or the first sample
SearchStart(c, fr) ==
    IF AboveSilence(c, fr) = {} THEN 0
    ELSE CHOOSE i \in AboveSilence(c, fr) : \A j \in AboveSilence(c, fr) : i <= j

\* a run of samples at or below the silence level begins at i and lasts until a
\* sample of the series that lies at least the blank-skip threshold after it
LongRunAt(c, fr, i) ==
    /\ i >= SearchStart(c, fr)
    /\ Silent(c, fr, i)
    /\ i = SearchStart(c, fr) \/ ~Silent(c, fr, i - 1)
    /\ \E j \in (i + 1) .. (Len(fr) - 1) :
          /\ fr[j + 1].PTSTime >= fr[i + 1].PTSTime + c.blankSkip
          /\ \A k \in i .. (j - 1) : Silent(c, fr, k)

\* C26: with blank-skip enabled, the candidate blank cue-out is the start
\* timestamp of the first run of samples at or below the silence level, from
\* the cue-in sample on, that lasts at least the blank-skip threshold; when
\* the series has no such run there is no candidate (the candidate stays 0).
C26_BlankRule ==
    (ScanReturned /\ cfg.blankSkip > 0) =>
        LET runs == { i \in 0 .. (Len(frames) - 1) : LongRunAt(cfg, frames, i) }
            cand == Analysis(cfg, frames).cueOutTimeBlank
        IN  IF runs = {} THEN cand = 0
            ELSE cand = frames[(CHOOSE i \in runs : \A j \in runs : i <= j) + 1].PTSTime

\* C27: when blank-skip is enabled but the Result has blankSkipped = false,
\* cueOut, crossStartNext, longTail and sustainedEnding are the same as for
\* the same series analysed with blank-skip disabled.
C27_UnadoptedBlankIsInert ==
    (ScanReturned /\ cfg.blankSkip > 0 /\ ~outcome.res.BlankSkipped) =>
        LET off == ScanResult([cfg EXCEPT !.blankSkip = 0], frames)
            r   == outcome.res
        IN  /\ r.CueOut = off.CueOut
            /\ r.CrossStartNext = off.CrossStartNext
            /\ r.LongTail = off.LongTail
            /\ r.SustainedEnding = off.SustainedEnding

\* C28: after a sufficient tag check liq_amplify and liq_amplify_adjustment
\* are the gain and correction calcAmplify returns for the stored
\* liq_loudness and liq_true_peak_db at the current target, whatever
\* liq_amplify, liq_amplify_adjustment and liq_reference_loudness were stored,
\* and liq_reference_loudness is the current target loudness.
C28_CachedGainRecomputed ==
    Sufficient =>
        LET stored == probe(file)
            amp    == calcAmplify(cfg, ParseVal(stored["liq_loudness"]),
                                  ParseVal(stored["liq_true_peak_db"]))
        IN  /\ tags["liq_amplify"] = Fmt3(amp.amplify)
            /\ tags["liq_amplify_adjustment"] = Fmt3(amp.amplifyCorrection)
            /\ tags["liq_reference_loudness"] = Fmt3(cfg.targetLoudness)

\* a sufficient check replaced a stored gain that the stored loudness does
\* not give, and clip prevention lowered the new one
C28_Witness ==
    /\ Sufficient
    /\ ParseVal(probe(file)["liq_amplify"]) = 300
    /\ ParseVal(tags["liq_amplify"]) # 300
    /\ ParseVal(tags["liq_amplify_adjustment"]) # 0

\* C29: in every Result Calc returns, cueDuration = cueOut - cueIn, on the
\* scan path and on the cache path, whatever liq_cue_duration was stored.
C29_CueDuration ==
    (pc = "done" /\ outcome.kind = "result") =>
        outcome.res.CueDuration = outcome.res.CueOut - outcome.res.CueIn

\* samples above the overlay level
AboveOverlay(c, fr) ==
    { i \in 0 .. (Len(fr) - 1) :
        /\ fr[i + 1].Loudness # NaN
        /\ fr[i + 1].Loudness > fr[Len(fr)].IntegratedLoudness + c.overlay }

\* C30: in every scan Result crossStartNext >= cueIn and crossStartNext >=
\* cueOut / 2, and when no sample exceeds the overlay level crossStartNext
\* equals cueOut.
C30_OverlayInSecondHalf ==
    ScanReturned =>
        LET r == outcome.res
        IN  /\ r.CrossStartNext >= r.CueIn
            /\ 2 * r.CrossStartNext >= r.CueOut
            /\ AboveOverlay(cfg, frames) = {} => r.CrossStartNext = r.CueOut

\* an overlay point strictly inside the second half of [0, cueOut], after
\* a cue-in that is not 0
C30_Witness ==
    /\ ScanReturned
    /\ AboveOverlay(cfg, frames) # {}
    /\ outcome.res.CueIn > 0
    /\ outcome.res.CrossStartNext > outcome.res.CueIn
    /\ outcome.res.CrossStartNext < outcome.res.CueOut

====
